---------------------------- MODULE Spec2Model ----------------------------
(***************************************************************************)
(* Corrugated-sphere renderer (WebGL-university).                          *)
(*                                                                         *)
(* Three builds of the page are modelled:                                  *)
(*   "wireframe" : src/main.js + src/unnamed/part_000 (U/V polylines)      *)
(*   "analytic"  : src/unnamed/part_002 + src/unnamed/part_001             *)
(*                 (triangles, sphere normals)                             *)
(*   "facet"     : src/unnamed/part_002 + src/model.js                     *)
(*                 (triangles, facet-weighted normals)                     *)
(*                                                                         *)
(* JavaScript Numbers are modelled as binary floating-point values         *)
(* <<m, e>> = m * 2^e with a mantissa of DoubleBits bits, rounded to       *)
(* nearest-even after every operation; a Float32Array element is the same  *)
(* with FloatBits bits and the exponent range of IEEE binary32.  The       *)
(* values of Math.cos / Math.sin at the sampled angles are tabulated from  *)
(* IEEE double evaluation (so that sin(2 * Math.PI) is -2.449e-16, not 0). *)
(* Signed zero is not modelled (-0 and 0 compare equal in JavaScript).     *)
(***************************************************************************)
EXTENDS Integers, Sequences, FiniteSets, TLC

(***************************************************************************)
(* Bounds of the model.                                                    *)
(***************************************************************************)
\* largest segment count a slider can deliver (segmentsCountByU/V, linesCount)
MaxSeg == 3
\* mantissa width of the modelled Number (IEEE double: 53)
DoubleBits == 12
\* mantissa width of the modelled Float32Array element (IEEE binary32: 24)
FloatBits == 6

(***************************************************************************)
(* Floating-point values.                                                  *)
(***************************************************************************)
Zero == <<0, 0>>
NaN == <<0, 1>>
PosInf == <<0, 2>>
NegInf == <<0, 3>>

IsNaN(x) == x = NaN
IsFinite(x) == x[1] # 0 \/ x = Zero
IsZero(x) == x = Zero

Abs(n) == IF n < 0 THEN -n ELSE n
Sign(n) == IF n < 0 THEN -1 ELSE 1

RECURSIVE BitLen(_)
\* number of binary digits of n >= 0
BitLen(n) == IF n = 0 THEN 0 ELSE 1 + BitLen(n \div 2)

\* round-half-to-even of q + r / (2 * half), for 0 <= r < 2 * half
RoundHalfEven(q, r, half) ==
  IF r > half \/ (r = half /\ q % 2 = 1) THEN q + 1 ELSE q

\* sign * up * 2^e, renormalised when rounding carried into a new binary place
Carry(sign, up, e, bits) ==
  IF up = 2^bits THEN <<sign * 2^(bits - 1), e + 1>> ELSE <<sign * up, e>>

\* m * 2^e, where m has `bits + s` binary digits, with the last s rounded away
RoundShift(m, e, bits, s) ==
  Carry(Sign(m), RoundHalfEven(Abs(m) \div 2^s, Abs(m) % 2^s, 2^(s - 1)), e + s, bits)

\* m * 2^e for an m of len binary digits
RoundLen(m, e, bits, len) ==
  IF len <= bits
  THEN <<m * 2^(bits - len), e - (bits - len)>>
  ELSE RoundShift(m, e, bits, len - bits)

\* m * 2^e rounded to a mantissa of `bits` bits, round-half-to-even
RoundTo(m, e, bits) ==
  IF m = 0 THEN Zero ELSE RoundLen(m, e, bits, BitLen(Abs(m)))

\* a Number from an integer literal or a parsed input
FromInt(k) == RoundTo(k, 0, DoubleBits)

\* a tabulated library result, rounded to the Number format
FromTable(t) == IF t[1] = 0 THEN t ELSE RoundTo(t[1], t[2], DoubleBits)

\* -x
FNeg(x) ==
  IF x[1] # 0 THEN <<-x[1], x[2]>>
  ELSE IF x = PosInf THEN NegInf
  ELSE IF x = NegInf THEN PosInf
  ELSE x

\* x * y
FMul(x, y) ==
  IF ~IsFinite(x) \/ ~IsFinite(y) THEN NaN
  ELSE IF IsZero(x) \/ IsZero(y) THEN Zero
  ELSE RoundTo(x[1] * y[1], x[2] + y[2], DoubleBits)

\* hi + lo for finite non-zero values with hi's exponent the larger one
AddAligned(hi, lo) ==
  IF hi[2] - lo[2] > DoubleBits + 2 THEN hi
  ELSE RoundTo(hi[1] * 2^(hi[2] - lo[2]) + lo[1], lo[2], DoubleBits)

\* x + y
FAdd(x, y) ==
  IF ~IsFinite(x) \/ ~IsFinite(y) THEN NaN
  ELSE IF IsZero(x) THEN y
  ELSE IF IsZero(y) THEN x
  ELSE IF x[2] >= y[2] THEN AddAligned(x, y)
  ELSE AddAligned(y, x)

\* x - y
FSub(x, y) == FAdd(x, FNeg(y))

\* sign * (num / den) * 2^(e + 1), with a sticky last digit
DivRound(sign, num, den, e) ==
  RoundTo(sign * (2 * (num \div den) + (IF num % den # 0 THEN 1 ELSE 0)), e, DoubleBits)

\* x / y
FDiv(x, y) ==
  IF ~IsFinite(x) \/ ~IsFinite(y) THEN NaN
  ELSE IF IsZero(y) THEN (IF IsZero(x) THEN NaN
                          ELSE IF x[1] > 0 THEN PosInf ELSE NegInf)
  ELSE IF IsZero(x) THEN Zero
  ELSE DivRound(Sign(x[1]) * Sign(y[1]), Abs(x[1]) * 2^(DoubleBits + 2), Abs(y[1]),
                x[2] - y[2] - (DoubleBits + 2) - 1)

RECURSIVE ISqrtIter(_, _)
\* Newton iteration for the integer square root of n, from a guess g >= sqrt(n)
ISqrtIter(n, g) ==
  IF (g + n \div g) \div 2 >= g THEN g ELSE ISqrtIter(n, (g + n \div g) \div 2)

\* 2 * r * 2^e for r the integer square root of t, with a sticky last digit
SqrtRound(t, r, e) ==
  RoundTo(2 * r + (IF r * r # t THEN 1 ELSE 0), e, DoubleBits)

\* sqrt(m * 2^e) with the mantissa scaled by 2^k, for an even e - k
SqrtScaled(m, e, k) ==
  SqrtRound(m * 2^k, ISqrtIter(m * 2^k, 2^(DoubleBits + 2)), (e - k) \div 2 - 1)

\* Math.sqrt(x)
FSqrt(x) ==
  IF ~IsFinite(x) THEN NaN
  ELSE IF IsZero(x) THEN Zero
  ELSE IF x[1] < 0 THEN NaN
  ELSE IF (x[2] - (DoubleBits + 2)) % 2 = 0
       THEN SqrtScaled(x[1], x[2], DoubleBits + 2)
       ELSE SqrtScaled(x[1], x[2], DoubleBits + 3)

\* IEEE binary32: exponent of the smallest normal value and of the largest finite one
Float32MinExp == -126
Float32MaxExp == 127

\* a value below the normal range of Float32: rounded to a multiple of 2^qe
ToSubnormal(x, qe) ==
  IF qe - x[2] > DoubleBits + 1 THEN Zero
  ELSE RoundTo(Sign(x[1]) * RoundHalfEven(Abs(x[1]) \div 2^(qe - x[2]),
                                          Abs(x[1]) % 2^(qe - x[2]),
                                          2^(qe - x[2] - 1)),
               qe, DoubleBits)

\* x, already rounded to r of FloatBits bits, fitted into the exponent range
FitFloat32(x, r) ==
  IF r[2] + FloatBits - 1 > Float32MaxExp THEN (IF x[1] > 0 THEN PosInf ELSE NegInf)
  ELSE IF r[2] + FloatBits - 1 >= Float32MinExp THEN RoundTo(r[1], r[2], DoubleBits)
  ELSE ToSubnormal(x, Float32MinExp - (FloatBits - 1))

\* new Float32Array([x])[0]: x rounded to the Float32 format (kept in the
\* normal form of a Number, so that equal values are equal tuples)
ToFloat32(x) ==
  IF x[1] = 0 THEN x ELSE FitFloat32(x, RoundTo(x[1], x[2], FloatBits))

\* new Float32Array(array)
Float32Array(array) == [k \in 1..Len(array) |-> ToFloat32(array[k])]

\* new Uint16Array(array): each element reduced modulo 2^16
Uint16Array(array) == [k \in 1..Len(array) |-> array[k] % 65536]

One == FromInt(1)

(***************************************************************************)
(* Math.cos / Math.sin at the sampled angles, from IEEE double evaluation  *)
(* (mantissas of 24 bits).  A segment count of 0 makes the angle 0 / 0.    *)
(***************************************************************************)
\* Math.cos(phi), phi = (i / segments) * 2 * Math.PI; row = segments, column = i + 1
CosPhiTable ==
  <<
    << <<8388608, -23>>, <<8388608, -23>> >>,
    << <<8388608, -23>>, <<-8388608, -23>>, <<8388608, -23>> >>,
    << <<8388608, -23>>, <<-8388608, -24>>, <<-8388608, -24>>, <<8388608, -23>> >>,
    << <<8388608, -23>>, <<9253170, -77>>, <<-8388608, -23>>, <<-13879754, -76>>, <<8388608, -23>> >>,
    << <<8388608, -23>>, <<10368890, -25>>, <<-13573053, -24>>, <<-13573053, -24>>, <<10368890, -25>>, <<8388608, -23>> >>
  >>

\* Math.sin(phi), phi = (i / segments) * 2 * Math.PI; row = segments, column = i + 1
SinPhiTable ==
  <<
    << <<0, 0>>, <<-9253170, -75>> >>,
    << <<0, 0>>, <<9253170, -76>>, <<-9253170, -75>> >>,
    << <<0, 0>>, <<14529495, -24>>, <<-14529495, -24>>, <<-9253170, -75>> >>,
    << <<0, 0>>, <<8388608, -23>>, <<9253170, -76>>, <<-8388608, -23>>, <<-9253170, -75>> >>,
    << <<0, 0>>, <<15956081, -24>>, <<9861400, -24>>, <<-9861400, -24>>, <<-15956081, -24>>, <<-9253170, -75>> >>
  >>

\* Math.cos(v), v = (j / segments) * Math.PI; row = segments, column = j + 1
CosVTable ==
  <<
    << <<8388608, -23>>, <<-8388608, -23>> >>,
    << <<8388608, -23>>, <<9253170, -77>>, <<-8388608, -23>> >>,
    << <<8388608, -23>>, <<8388608, -24>>, <<-8388608, -24>>, <<-8388608, -23>> >>,
    << <<8388608, -23>>, <<11863283, -24>>, <<9253170, -77>>, <<-11863283, -24>>, <<-8388608, -23>> >>,
    << <<8388608, -23>>, <<13573053, -24>>, <<10368890, -25>>, <<-10368890, -25>>, <<-13573053, -24>>, <<-8388608, -23>> >>
  >>

\* Math.sin(v), v = (j / segments) * Math.PI; row = segments, column = j + 1
SinVTable ==
  <<
    << <<0, 0>>, <<9253170, -76>> >>,
    << <<0, 0>>, <<8388608, -23>>, <<9253170, -76>> >>,
    << <<0, 0>>, <<14529495, -24>>, <<14529495, -24>>, <<9253170, -76>> >>,
    << <<0, 0>>, <<11863283, -24>>, <<8388608, -23>>, <<11863283, -24>>, <<9253170, -76>> >>,
    << <<0, 0>>, <<9861400, -24>>, <<15956081, -24>>, <<15956081, -24>>, <<9861400, -24>>, <<9253170, -76>> >>
  >>

\* Math.cos(n * phi); outer index = n + 1, then row = segments, column = i + 1
CosNPhiTable ==
  <<
    <<
      << <<8388608, -23>>, <<8388608, -23>> >>,
      << <<8388608, -23>>, <<8388608, -23>>, <<8388608, -23>> >>,
      << <<8388608, -23>>, <<8388608, -23>>, <<8388608, -23>>, <<8388608, -23>> >>,
      << <<8388608, -23>>, <<8388608, -23>>, <<8388608, -23>>, <<8388608, -23>>, <<8388608, -23>> >>,
      << <<8388608, -23>>, <<8388608, -23>>, <<8388608, -23>>, <<8388608, -23>>, <<8388608, -23>>, <<8388608, -23>> >>
    >>,
    <<
      << <<8388608, -23>>, <<8388608, -23>> >>,
      << <<8388608, -23>>, <<-8388608, -23>>, <<8388608, -23>> >>,
      << <<8388608, -23>>, <<-8388608, -24>>, <<-8388608, -24>>, <<8388608, -23>> >>,
      << <<8388608, -23>>, <<9253170, -77>>, <<-8388608, -23>>, <<-13879754, -76>>, <<8388608, -23>> >>,
      << <<8388608, -23>>, <<10368890, -25>>, <<-13573053, -24>>, <<-13573053, -24>>, <<10368890, -25>>, <<8388608, -23>> >>
    >>,
    <<
      << <<8388608, -23>>, <<8388608, -23>> >>,
      << <<8388608, -23>>, <<8388608, -23>>, <<8388608, -23>> >>,
      << <<8388608, -23>>, <<-8388608, -24>>, <<-8388608, -24>>, <<8388608, -23>> >>,
      << <<8388608, -23>>, <<-8388608, -23>>, <<8388608, -23>>, <<-8388608, -23>>, <<8388608, -23>> >>,
      << <<8388608, -23>>, <<-13573053, -24>>, <<10368890, -25>>, <<10368890, -25>>, <<-13573053, -24>>, <<8388608, -23>> >>
    >>,
    <<
      << <<8388608, -23>>, <<8388608, -23>> >>,
      << <<8388608, -23>>, <<-8388608, -23>>, <<8388608, -23>> >>,
      << <<8388608, -23>>, <<8388608, -23>>, <<8388608, -23>>, <<8388608, -23>> >>,
      << <<8388608, -23>>, <<-13879754, -76>>, <<-8388608, -23>>, <<10409816, -74>>, <<8388608, -23>> >>,
      << <<8388608, -23>>, <<-13573053, -24>>, <<10368890, -25>>, <<10368890, -25>>, <<-13573053, -24>>, <<8388608, -23>> >>
    >>
  >>

\* Math.cos(phi) for phi = (i / segments) * 2 * Math.PI
CosPhi(i, segments) ==
  IF segments = 0 THEN NaN ELSE FromTable(CosPhiTable[segments][i + 1])

\* Math.sin(phi) for phi = (i / segments) * 2 * Math.PI
SinPhi(i, segments) ==
  IF segments = 0 THEN NaN ELSE FromTable(SinPhiTable[segments][i + 1])

\* Math.cos(n * phi) for phi = (i / segments) * 2 * Math.PI
CosNPhi(n, i, segments) ==
  IF segments = 0 THEN NaN ELSE FromTable(CosNPhiTable[n + 1][segments][i + 1])

\* Math.cos(v) for v = (j / segments) * Math.PI
CosV(j, segments) ==
  IF segments = 0 THEN NaN ELSE FromTable(CosVTable[segments][j + 1])

\* Math.sin(v) for v = (j / segments) * Math.PI
SinV(j, segments) ==
  IF segments = 0 THEN NaN ELSE FromTable(SinVTable[segments][j + 1])

(***************************************************************************)
(* class Model (src/model.js, src/unnamed/part_001): triangulated sphere.  *)
(* A model object m is a record of the constructor's fields.               *)
(***************************************************************************)
\* the body of getVertices' inner loop: the point pushed for (i, j)
VertexAt(m, i, j) ==
  LET cosV == CosV(j, m.segmentsCountV)
      sinV == SinV(j, m.segmentsCountV)
      similarPart == FAdd(FMul(m.radius, cosV),
                          FMul(FMul(m.a, FSub(One, sinV)),
                               CosNPhi(m.n, i, m.segmentsCountU)))
      x == FMul(similarPart, CosPhi(i, m.segmentsCountU))
      y == FMul(similarPart, SinPhi(i, m.segmentsCountU))
      z == FMul(m.radius, sinV)
  IN <<x, y, z>>

RECURSIVE VerticesInner(_, _, _)
\* for (let j = ...; j <= segmentsCountV; j++) of getVertices
VerticesInner(m, i, j) ==
  IF j <= m.segmentsCountV
  THEN VertexAt(m, i, j) \o VerticesInner(m, i, j + 1)
  ELSE << >>

RECURSIVE VerticesOuterExclusive(_, _)
\* a variant of the outer loop that stops before i = segmentsCountU
VerticesOuterExclusive(m, i) ==
  IF i < m.segmentsCountU
  THEN VerticesInner(m, i, 0) \o VerticesOuterExclusive(m, i + 1)
  ELSE << >>

RECURSIVE VerticesOuter(_, _)
\* for (let i = ...; i <= segmentsCountU; i++) of getVertices
VerticesOuter(m, i) ==
  IF i <= m.segmentsCountU
  THEN VerticesInner(m, i, 0) \o VerticesOuter(m, i + 1)
  ELSE << >>

getVertices(m) == VerticesOuter(m, 0)

\* a variant of the cell for a closed seam: the row after the last one is row 0
CellIndicesWrapping(m, i, j) ==
  LET point == i * (m.segmentsCountV + 1) + j
      pointInNextRow == ((i + 1) % m.segmentsCountU) * (m.segmentsCountV + 1) + j
  IN <<point, pointInNextRow, point + 1,
       point + 1, pointInNextRow, pointInNextRow + 1>>

\* a variant of the cell with the first triangle wound the other way
CellIndicesSwapped(m, i, j) ==
  LET point == i * (m.segmentsCountV + 1) + j
      pointInNextRow == point + (m.segmentsCountV + 1)
  IN <<point, point + 1, pointInNextRow,
       point + 1, pointInNextRow, pointInNextRow + 1>>

\* the six indices getIndices pushes for the cell (i, j)
CellIndices(m, i, j) ==
  LET point == i * (m.segmentsCountV + 1) + j
      pointInNextRow == point + (m.segmentsCountV + 1)
  IN <<point, pointInNextRow, point + 1,
       point + 1, pointInNextRow, pointInNextRow + 1>>

RECURSIVE IndicesInnerShort(_, _, _)
\* a variant of the inner loop that leaves out the last column of cells
IndicesInnerShort(m, i, j) ==
  IF j < m.segmentsCountV - 1
  THEN CellIndices(m, i, j) \o IndicesInnerShort(m, i, j + 1)
  ELSE << >>

RECURSIVE IndicesInnerInclusive(_, _, _)
\* a variant of the inner loop that also visits j = segmentsCountV
IndicesInnerInclusive(m, i, j) ==
  IF j <= m.segmentsCountV
  THEN CellIndices(m, i, j) \o IndicesInnerInclusive(m, i, j + 1)
  ELSE << >>

RECURSIVE IndicesInner(_, _, _)
\* for (let j = ...; j < segmentsCountV; j++) of getIndices
IndicesInner(m, i, j) ==
  IF j < m.segmentsCountV
  THEN CellIndices(m, i, j) \o IndicesInner(m, i, j + 1)
  ELSE << >>

RECURSIVE IndicesOuter(_, _)
\* for (let i = ...; i < segmentsCountU; i++) of getIndices
IndicesOuter(m, i) ==
  IF i < m.segmentsCountU
  THEN IndicesInner(m, i, 0) \o IndicesOuter(m, i + 1)
  ELSE << >>

getIndices(m) == IndicesOuter(m, 0)

\* the body of getNormals' inner loop (src/unnamed/part_001)
NormalAt(m, i, j) ==
  LET nx == FMul(CosV(j, m.segmentsCountV), CosPhi(i, m.segmentsCountU))
      ny == FMul(CosV(j, m.segmentsCountV), SinPhi(i, m.segmentsCountU))
      nz == SinV(j, m.segmentsCountV)
  IN <<nx, ny, nz>>

RECURSIVE NormalsInner(_, _, _)
NormalsInner(m, i, j) ==
  IF j <= m.segmentsCountV
  THEN NormalAt(m, i, j) \o NormalsInner(m, i, j + 1)
  ELSE << >>

RECURSIVE NormalsOuter(_, _)
NormalsOuter(m, i) ==
  IF i <= m.segmentsCountU
  THEN NormalsInner(m, i, 0) \o NormalsOuter(m, i + 1)
  ELSE << >>

getNormals(m) == NormalsOuter(m, 0)

\* array[k] for a 0-based k; reading past the end gives undefined, which is
\* NaN in arithmetic
At(array, k) == IF (k + 1) \in DOMAIN array THEN array[k + 1] ELSE NaN

\* [vertices[k], vertices[k + 1], vertices[k + 2]] for a 0-based k
Triple(array, k) == <<At(array, k), At(array, k + 1), At(array, k + 2)>>

\* [to[0] - from[0], to[1] - from[1], to[2] - from[2]]
Edge(to, from) ==
  <<FSub(to[1], from[1]), FSub(to[2], from[2]), FSub(to[3], from[3])>>

\* const normal = [...]: the cross product of the two edges
Cross(firstEdge, secondEdge) ==
  <<FSub(FMul(firstEdge[2], secondEdge[3]), FMul(firstEdge[3], secondEdge[2])),
    FSub(FMul(firstEdge[3], secondEdge[1]), FMul(firstEdge[1], secondEdge[3])),
    FSub(FMul(firstEdge[1], secondEdge[2]), FMul(firstEdge[2], secondEdge[1]))>>

\* Math.sqrt(n[0] ** 2 + n[1] ** 2 + n[2] ** 2)
Length(n) ==
  FSqrt(FAdd(FAdd(FMul(n[1], n[1]), FMul(n[2], n[2])), FMul(n[3], n[3])))

\* [normal[0] * normalLength, normal[1] * normalLength, normal[2] * normalLength]
Scale(normal, normalLength) ==
  <<FMul(normal[1], normalLength), FMul(normal[2], normalLength),
    FMul(normal[3], normalLength)>>

\* what one triangle adds to each of its three vertices: normal * normalLength
Weighted(normal) == Scale(normal, Length(normal))

TriangleNormal(firstVertex, secondVertex, thirdVertex) ==
  Weighted(Cross(Edge(secondVertex, firstVertex), Edge(thirdVertex, firstVertex)))

\* normals[k] += w[0]; normals[k + 1] += w[1]; normals[k + 2] += w[2]
\* on a Float32Array, for a 0-based k (a write past the end is ignored)
AddAt(normals, k, w) ==
  [normals EXCEPT ![k + 1] = ToFloat32(FAdd(@, w[1])),
                  ![k + 2] = ToFloat32(FAdd(@, w[2])),
                  ![k + 3] = ToFloat32(FAdd(@, w[3]))]

\* the nine additions of one pass of the first loop
AddTriangle(normals, firstIndex, secondIndex, thirdIndex, w) ==
  AddAt(AddAt(AddAt(normals, firstIndex, w), secondIndex, w), thirdIndex, w)

\* one pass of the first loop of getFacetWeightedNormals, at 0-based index i
AccumulateTriangle(normals, vertices, indices, i) ==
  AddTriangle(normals, indices[i + 1] * 3, indices[i + 2] * 3, indices[i + 3] * 3,
              TriangleNormal(Triple(vertices, indices[i + 1] * 3),
                             Triple(vertices, indices[i + 2] * 3),
                             Triple(vertices, indices[i + 3] * 3)))

RECURSIVE Accumulate(_, _, _, _)
\* for (let i = ...; i < indices.length; i += 3)
Accumulate(normals, vertices, indices, i) ==
  IF i < Len(indices)
  THEN Accumulate(AccumulateTriangle(normals, vertices, indices, i),
                  vertices, indices, i + 3)
  ELSE normals

\* the second loop of getFacetWeightedNormals: every triple divided by its length
Normalize(normals) ==
  [k \in 1..Len(normals) |->
     ToFloat32(FDiv(normals[k], Length(Triple(normals, ((k - 1) \div 3) * 3))))]

\* new Float32Array(length): all zero
ZeroArray(length) == [k \in 1..length |-> Zero]

getFacetWeightedNormals(vertices, indices) ==
  Normalize(Accumulate(ZeroArray(Len(vertices)), vertices, indices, 0))

(***************************************************************************)
(* function Model (src/unnamed/part_000): wireframe sphere.                *)
(***************************************************************************)
\* the point createUVertices pushes for (i, j)
UVertexAt(m, i, j) ==
  LET R == m.radius
      a == m.corrugation
      n == m.n
      cosV == CosV(j, m.segmentsV)
      sinV == SinV(j, m.segmentsV)
      similarPart == FAdd(FMul(R, cosV),
                          FMul(FMul(a, FSub(One, sinV)), CosNPhi(n, i, m.segmentsU)))
      x == FMul(similarPart, CosPhi(i, m.segmentsU))
      y == FMul(similarPart, SinPhi(i, m.segmentsU))
      z == FMul(R, sinV)
  IN <<x, y, z>>

RECURSIVE UVerticesInnerExclusive(_, _, _)
\* a variant of the inner loop that stops before j = segmentsV
UVerticesInnerExclusive(m, i, j) ==
  IF j < m.segmentsV
  THEN UVertexAt(m, i, j) \o UVerticesInnerExclusive(m, i, j + 1)
  ELSE << >>

RECURSIVE UVerticesInner(_, _, _)
UVerticesInner(m, i, j) ==
  IF j <= m.segmentsV
  THEN UVertexAt(m, i, j) \o UVerticesInner(m, i, j + 1)
  ELSE << >>

RECURSIVE UVerticesOuter(_, _)
UVerticesOuter(m, i) ==
  IF i <= m.segmentsU
  THEN UVerticesInner(m, i, 0) \o UVerticesOuter(m, i + 1)
  ELSE << >>

createUVertices(m) == UVerticesOuter(m, 0)

\* the point createVVertices pushes for (j, i)
VVertexAt(m, j, i) ==
  LET R == m.radius
      a == m.corrugation
      n == m.n
      cosV == CosV(j, m.segmentsV)
      sinV == SinV(j, m.segmentsV)
      cosNPhi == CosNPhi(n, i, m.segmentsU)
      similarPart == FAdd(FMul(R, cosV), FMul(FMul(a, FSub(One, sinV)), cosNPhi))
      x == FMul(similarPart, CosPhi(i, m.segmentsU))
      y == FMul(similarPart, SinPhi(i, m.segmentsU))
      z == FMul(R, sinV)
  IN <<x, y, z>>

RECURSIVE VVerticesInner(_, _, _)
VVerticesInner(m, j, i) ==
  IF i <= m.segmentsU
  THEN VVertexAt(m, j, i) \o VVerticesInner(m, j, i + 1)
  ELSE << >>

RECURSIVE VVerticesOuter(_, _)
VVerticesOuter(m, j) ==
  IF j <= m.segmentsV
  THEN VVerticesInner(m, j, 0) \o VVerticesOuter(m, j + 1)
  ELSE << >>

\* a variant that fills the V buffer in the order of the U buffer
createVVerticesUntransposed(m) == UVerticesOuter(m, 0)

createVVertices(m) == VVerticesOuter(m, 0)

(***************************************************************************)
(* bufferData: the arrays a model generates and what it uploads.           *)
(***************************************************************************)
\* what a bufferData of the triangulated builds leaves behind: its three
\* arrays and the three data stores
Uploaded(vertices, indices, normals) ==
  [locals |-> [vertices |-> vertices, indices |-> indices, normals |-> normals],
   gpu |-> [vertexBuffer |-> Float32Array(vertices),
            indexBuffer |-> Uint16Array(indices),
            normalBuffer |-> Float32Array(normals)]]

\* the tail of Model.bufferData of src/model.js, from its two first arrays
UploadedFacet(vertices, indices) ==
  Uploaded(vertices, indices, getFacetWeightedNormals(vertices, indices))

\* Model.bufferData of src/model.js
bufferDataFacet(m) == UploadedFacet(getVertices(m), getIndices(m))

\* Model.bufferData of src/unnamed/part_001
bufferDataAnalytic(m) == Uploaded(getVertices(m), getIndices(m), getNormals(m))

\* what bufferData of src/unnamed/part_000 leaves behind
UploadedWire(uVertices, vVertices) ==
  [locals |-> [uVertices |-> uVertices, vVertices |-> vVertices],
   gpu |-> [uVertexBuffer |-> Float32Array(uVertices),
            vVertexBuffer |-> Float32Array(vVertices)],
   uVertexCount |-> Len(uVertices) \div 3,
   vVertexCount |-> Len(vVertices) \div 3]

\* this.bufferData of src/unnamed/part_000
bufferDataWire(m) == UploadedWire(createUVertices(m), createVVertices(m))

(***************************************************************************)
(* The inputs updateModel reads from the page.                             *)
(***************************************************************************)
\* 0.5
Half == RoundTo(1, -1, DoubleBits)
\* 2^-12, a small radius
Tiny == RoundTo(1, -12, DoubleBits)
\* parseFloat / parseInt of the page's input fields
RadiusInputs == {Tiny, One}
AmplitudeInputs == {Zero, Half}
WaveInputs == {0, 2}
SegmentInputs == 0..MaxSeg

\* new Model(gl, shaderProgram, radius, amplitude, wavesCount, segmentsCountByU,
\* segmentsCountByV): the fields the constructor sets (src/model.js)
Model(radius, corrugation, waveCount, segmentsCountByU, segmentsCountByV) ==
  [radius |-> radius, a |-> corrugation, n |-> waveCount,
   segmentsCountU |-> segmentsCountByU, segmentsCountV |-> segmentsCountByV]

\* new Model(name, radius, corrugation, waveCount, linesCount) (part_000)
WireModel(name, radius, corrugation, waveCount, linesCount) ==
  [name |-> name, radius |-> radius, corrugation |-> corrugation, n |-> waveCount,
   segmentsU |-> linesCount, segmentsV |-> linesCount,
   uVertexCount |-> 0, vVertexCount |-> 0]

Models ==
  {Model(r, a, n, su, sv) : r \in RadiusInputs, a \in AmplitudeInputs,
                            n \in WaveInputs, su \in SegmentInputs, sv \in SegmentInputs}

WireModels ==
  {WireModel("CorrugatedSphere", r, a, n, l) :
     r \in RadiusInputs, a \in AmplitudeInputs, n \in WaveInputs, l \in SegmentInputs}

\* the results of bufferData, evaluated once per model
FacetMeshes == [m \in Models |-> bufferDataFacet(m)]
AnalyticMeshes == [m \in Models |-> bufferDataAnalytic(m)]
WireMeshes == [m \in WireModels |-> bufferDataWire(m)]

(***************************************************************************)
(* The page: render -> draw -> updateModel, once per animation frame and   *)
(* once per trackball drag.                                                *)
(***************************************************************************)
VARIABLES
  page,       \* which build is loaded: "wireframe", "analytic" or "facet"
  pc,         \* position inside updateModel: "idle", "constructed", "buffered"
  model,      \* the global `model` (NoModel until the first frame)
  locals,     \* the arrays of the latest bufferData call
  gpu,        \* contents of the buffers the current model created
  frameLog,   \* the calls of the current frame, in order: the generators, the
              \* uploads (gl.bufferData) and Model.draw
  drawCalls,  \* the draw calls of the latest Model.draw
  remembered  \* history: one earlier generation (its model, arrays and buffers)
              \* and whether a frame with other inputs has followed it

vars == <<page, pc, model, locals, gpu, frameLog, drawCalls, remembered>>

Pages == {"wireframe", "analytic", "facet"}
NoModel == [name |-> "undefined"]
None == [model |-> NoModel]
NoLocals == [vertices |-> << >>]
\* gl.createBuffer(): a buffer object without a data store
EmptyBuffers == [vertexBuffer |-> << >>, indexBuffer |-> << >>, normalBuffer |-> << >>]
EmptyWireBuffers == [uVertexBuffer |-> << >>, vVertexBuffer |-> << >>]

Init ==
  /\ page \in Pages
  /\ pc = "idle"
  /\ model = NoModel
  /\ locals = NoLocals
  /\ gpu = IF page = "wireframe" THEN EmptyWireBuffers ELSE EmptyBuffers
  /\ frameLog = << >>
  /\ drawCalls = << >>
  /\ remembered = None

\* the calls one Model.bufferData makes, in order (src/model.js 146-158)
FacetCalls ==
  <<"getVertices", "bufferData(vertexBuffer)",
    "getIndices", "bufferData(indexBuffer)",
    "getFacetWeightedNormals", "bufferData(normalBuffer)">>

\* the calls one Model.bufferData makes, in order (src/unnamed/part_001 96-108)
AnalyticCalls ==
  <<"getVertices", "bufferData(vertexBuffer)",
    "getNormals", "bufferData(normalBuffer)",
    "getIndices", "bufferData(indexBuffer)">>

\* the calls one bufferData makes, in order (src/unnamed/part_000 81-91)
WireCalls ==
  <<"createUVertices", "bufferData(uVertexBuffer)",
    "createVVertices", "bufferData(vVertexBuffer)">>

\* the inputs a model object was constructed from
Params(m) ==
  IF "uVertexCount" \in DOMAIN m
  THEN [m EXCEPT !.uVertexCount = 0, !.vVertexCount = 0]
  ELSE m

\* history only: notes that a frame with inputs other than the remembered ones began
Followed(r, m) ==
  IF r = None THEN None
  ELSE [r EXCEPT !.changed = @ \/ (Params(m) # r.model)]

\* a variant of bufferData whose vertex list is not started afresh
ModelBufferDataAppending(pg, m, old) ==
  [locals |-> [(IF pg = "facet" THEN FacetMeshes[m] ELSE AnalyticMeshes[m]).locals
                 EXCEPT !.vertices = old.locals.vertices \o @],
   gpu |-> (IF pg = "facet" THEN FacetMeshes[m] ELSE AnalyticMeshes[m]).gpu]

\* m.bufferData() of the triangulated builds: the arrays are generated anew and
\* every buffer's data store is replaced; `old` (the locals and buffers before
\* the call) is not read
ModelBufferData(pg, m, old) ==
  IF pg = "facet" THEN FacetMeshes[m] ELSE AnalyticMeshes[m]

\* updateModel up to and including `new Model(...)`; the constructor of the
\* triangulated builds ends with this.bufferData()
NewModel(radii, amplitudes, waves, segments) ==
  /\ page \in {"analytic", "facet"}
  /\ pc = "idle"
  /\ \E r \in radii, a \in amplitudes, n \in waves, su \in segments, sv \in segments :
       LET m == Model(r, a, n, su, sv)
           b == ModelBufferData(page, m, [locals |-> NoLocals, gpu |-> EmptyBuffers])
       IN /\ model' = m
          /\ locals' = b.locals
          /\ gpu' = b.gpu
          /\ remembered' = Followed(remembered, m)
  /\ frameLog' = IF page = "facet" THEN FacetCalls ELSE AnalyticCalls
  /\ pc' = "constructed"
  /\ UNCHANGED <<page, drawCalls>>

\* updateModel: model.bufferData()
BufferData ==
  /\ page \in {"analytic", "facet"}
  /\ pc = "constructed"
  /\ LET b == ModelBufferData(page, model, [locals |-> locals, gpu |-> gpu])
     IN /\ locals' = b.locals
        /\ gpu' = b.gpu
  /\ frameLog' = frameLog \o (IF page = "facet" THEN FacetCalls ELSE AnalyticCalls)
  /\ pc' = "buffered"
  /\ UNCHANGED <<page, model, drawCalls, remembered>>

\* Model.draw of the triangulated builds: one drawElements call
DrawElements(m) ==
  <<[call |-> "drawElements", mode |-> "TRIANGLES",
     count |-> m.segmentsCountU * m.segmentsCountV * 6,
     type |-> "UNSIGNED_SHORT", offset |-> 0]>>

\* updateModel: model.draw()
Draw ==
  /\ page \in {"analytic", "facet"}
  /\ pc = "buffered"
  /\ drawCalls' = DrawElements(model)
  /\ frameLog' = Append(frameLog, "draw")
  /\ pc' = "idle"
  /\ UNCHANGED <<page, model, locals, gpu, remembered>>

\* updateModel of src/main.js up to and including `new Model(...)`; this
\* constructor creates the two buffers and does not fill them
NewWireModel(radii, amplitudes, waves, segments) ==
  /\ page = "wireframe"
  /\ pc = "idle"
  /\ \E r \in radii, a \in amplitudes, n \in waves, l \in segments :
       /\ model' = WireModel("CorrugatedSphere", r, a, n, l)
       /\ remembered' = Followed(remembered, WireModel("CorrugatedSphere", r, a, n, l))
  /\ locals' = NoLocals
  /\ gpu' = EmptyWireBuffers
  /\ frameLog' = << >>
  /\ pc' = "constructed"
  /\ UNCHANGED <<page, drawCalls>>

\* updateModel of src/main.js: model.bufferData()
WireBufferData ==
  /\ page = "wireframe"
  /\ pc = "constructed"
  /\ LET b == WireMeshes[Params(model)]
     IN /\ locals' = b.locals
        /\ gpu' = b.gpu
        /\ model' = [model EXCEPT !.uVertexCount = b.uVertexCount,
                                  !.vVertexCount = b.vVertexCount]
  /\ frameLog' = frameLog \o WireCalls
  /\ pc' = "buffered"
  /\ UNCHANGED <<page, drawCalls, remembered>>

RECURSIVE LineStrips(_, _, _, _)
\* for (let i = ...; i < curves; i++) gl.drawArrays(gl.LINE_STRIP, i * stride, stride)
LineStrips(buffer, i, curves, stride) ==
  IF i < curves
  THEN <<[call |-> "drawArrays", mode |-> "LINE_STRIP", buffer |-> buffer,
          first |-> i * stride, count |-> stride]>>
       \o LineStrips(buffer, i + 1, curves, stride)
  ELSE << >>

\* this.draw of src/unnamed/part_000
DrawLines(m) ==
  LineStrips("uVertexBuffer", 0, m.segmentsU, m.segmentsV + 1)
  \o LineStrips("vVertexBuffer", 0, m.segmentsV, m.segmentsU + 1)

\* updateModel of src/main.js: model.draw()
WireDraw ==
  /\ page = "wireframe"
  /\ pc = "buffered"
  /\ drawCalls' = DrawLines(model)
  /\ frameLog' = Append(frameLog, "draw")
  /\ pc' = "idle"
  /\ UNCHANGED <<page, model, locals, gpu, remembered>>

Next ==
  \/ NewModel(RadiusInputs, AmplitudeInputs, WaveInputs, SegmentInputs)
  \/ BufferData
  \/ Draw
  \/ NewWireModel(RadiusInputs, AmplitudeInputs, WaveInputs, SegmentInputs)
  \/ WireBufferData
  \/ WireDraw

Spec == Init /\ [][Next]_vars

(***************************************************************************)
(* The same page with one earlier generation kept for comparison.          *)
(***************************************************************************)
\* history only: keeps the model, arrays and buffers of one generation
Remember ==
  /\ remembered = None
  /\ model # NoModel
  /\ locals # NoLocals
  /\ remembered' = [model |-> Params(model), locals |-> locals, gpu |-> gpu,
                     changed |-> FALSE]
  /\ UNCHANGED <<page, pc, model, locals, gpu, frameLog, drawCalls>>

\* a smaller sample of inputs, so that pairs of generations can be compared
SegmentInputsDet == {0, 1, MaxSeg}
WaveInputsDet == {2}

NextDet ==
  \/ NewModel(RadiusInputs, AmplitudeInputs, WaveInputsDet, SegmentInputsDet)
  \/ BufferData
  \/ Draw
  \/ NewWireModel(RadiusInputs, AmplitudeInputs, WaveInputsDet, SegmentInputsDet)
  \/ WireBufferData
  \/ WireDraw
  \/ Remember

SpecDet == Init /\ [][NextDet]_vars

(***************************************************************************)
(* The index path of bufferData and draw on a large grid.  The index list  *)
(* of a large grid is followed one cell at a time: `locals.indices` holds  *)
(* the six entries 6k .. 6k + 5 that getIndices pushes for the cell k, and  *)
(* `gpu.indexBuffer` the six elements new Uint16Array(indices) holds at the *)
(* same positions (the conversion is element by element).  Vertices and    *)
(* normals are left out.                                                   *)
(***************************************************************************)
\* largest segment count entered for a large grid
MaxLargeSeg == 256
LargeSegmentInputs == {MaxLargeSeg - 1, MaxLargeSeg}

\* the cells (i, j) in the four corners of the grid of m
CornerCells(m) ==
  {0, m.segmentsCountU - 1} \X {0, m.segmentsCountV - 1}

\* bufferData: const indices = this.getIndices(), followed at one cell
GenerateCell(radii, segments) ==
  /\ page \in {"analytic", "facet"}
  /\ pc = "idle"
  /\ \E r \in radii, su \in segments, sv \in segments :
       \E cell \in CornerCells(Model(r, Zero, 0, su, sv)) :
         /\ model' = Model(r, Zero, 0, su, sv)
         /\ locals' = [vertices |-> << >>,
                       indices |-> CellIndices(Model(r, Zero, 0, su, sv), cell[1], cell[2]),
                       normals |-> << >>,
                       cell |-> cell]
  /\ gpu' = EmptyBuffers
  /\ frameLog' = <<"getIndices">>
  /\ pc' = "constructed"
  /\ UNCHANGED <<page, drawCalls, remembered>>

\* bufferData: gl.bufferData(ELEMENT_ARRAY_BUFFER, new Uint16Array(indices), ...)
UploadCell ==
  /\ page \in {"analytic", "facet"}
  /\ pc = "constructed"
  /\ gpu' = [gpu EXCEPT !.indexBuffer = Uint16Array(locals.indices)]
  /\ frameLog' = Append(frameLog, "bufferData(indexBuffer)")
  /\ pc' = "buffered"
  /\ UNCHANGED <<page, model, locals, drawCalls, remembered>>

NextLarge ==
  \/ GenerateCell(RadiusInputs, LargeSegmentInputs)
  \/ UploadCell
  \/ Draw

SpecLarge == Init /\ [][NextLarge]_vars

(***************************************************************************)
(* Properties.                                                             *)
(***************************************************************************)
Triangulated == page \in {"analytic", "facet"}
\* a bufferData of the current model has run
Generated == model # NoModel /\ locals # NoLocals
\* number of grid points of a (segmentsU x segmentsV) grid
GridPoints(su, sv) == (su + 1) * (sv + 1)

\* C1: for segment counts >= 1 the index list of getIndices has exactly
\* segmentsU * segmentsV * 6 entries, and every entry is a vertex position
\* 0 .. (segmentsU + 1) * (segmentsV + 1) - 1 that getVertices emitted.
C1_IndexCountAndRange ==
  (Triangulated /\ Generated /\ model.segmentsCountU >= 1 /\ model.segmentsCountV >= 1)
  => /\ Len(locals.indices) = model.segmentsCountU * model.segmentsCountV * 6
     /\ \A k \in 1..Len(locals.indices) :
          /\ locals.indices[k] >= 0
          /\ locals.indices[k] < GridPoints(model.segmentsCountU, model.segmentsCountV)
          /\ 3 * locals.indices[k] + 3 <= Len(locals.vertices)

C1_Witness ==
  /\ Triangulated /\ Generated
  /\ model.segmentsCountU = 2 /\ model.segmentsCountV = MaxSeg
  /\ Len(locals.indices) = 12 * MaxSeg
  /\ \E k \in 1..Len(locals.indices) : locals.indices[k] = 3 * (MaxSeg + 1) - 1

\* C2: getIndices visits the cells row by row (i outer, j inner); the k-th cell
\* (k = i * segmentsV + j) fills positions 6k .. 6k + 5 with p, q, p + 1, p + 1,
\* q, q + 1 where p = i * (segmentsV + 1) + j and q = p + segmentsV + 1; nothing
\* else is in the list, so each cell gives exactly two triangles.
C2_CellOrderAndWinding ==
  (Triangulated /\ Generated)
  => /\ \A i \in 0..(model.segmentsCountU - 1), j \in 0..(model.segmentsCountV - 1) :
          LET k == i * model.segmentsCountV + j
              p == i * (model.segmentsCountV + 1) + j
              q == p + (model.segmentsCountV + 1)
          IN /\ 6 * k + 6 <= Len(locals.indices)
             /\ SubSeq(locals.indices, 6 * k + 1, 6 * k + 6)
                  = <<p, q, p + 1, p + 1, q, q + 1>>
     /\ (model.segmentsCountU >= 1 /\ model.segmentsCountV >= 1)
          => Len(locals.indices) = 6 * model.segmentsCountU * model.segmentsCountV

C2_Witness ==
  /\ Triangulated /\ Generated
  /\ model.segmentsCountU = MaxSeg /\ model.segmentsCountV = 2
  /\ SubSeq(locals.indices, 6 * 3 + 1, 6 * 3 + 6) = <<4, 7, 5, 5, 7, 8>>

\* C3: for segment counts >= 1 getVertices emits (segmentsU + 1) * (segmentsV + 1)
\* vertices of 3 numbers, the vertex of grid point (i, j) at vertex position
\* i * (segmentsV + 1) + j; the normal array has the same length, and the analytic
\* normal of grid point (i, j) is at the same position.
C3_VertexGrid ==
  (Triangulated /\ Generated /\ model.segmentsCountU >= 1 /\ model.segmentsCountV >= 1)
  => /\ Len(locals.vertices) = 3 * GridPoints(model.segmentsCountU, model.segmentsCountV)
     /\ Len(locals.normals) = Len(locals.vertices)
     /\ Len(gpu.vertexBuffer) = Len(locals.vertices)
     /\ Len(gpu.normalBuffer) = Len(locals.vertices)
     /\ \A i \in 0..model.segmentsCountU, j \in 0..model.segmentsCountV :
          /\ Triple(locals.vertices, 3 * (i * (model.segmentsCountV + 1) + j))
               = VertexAt(model, i, j)
          /\ page = "analytic"
               => Triple(locals.normals, 3 * (i * (model.segmentsCountV + 1) + j))
                    = NormalAt(model, i, j)

C3_Witness ==
  /\ page = "facet" /\ Generated
  /\ model.segmentsCountU = MaxSeg /\ model.segmentsCountV = 1
  /\ model.radius = One
  /\ Len(locals.vertices) = 6 * (MaxSeg + 1)
  /\ Len(locals.normals) = 6 * (MaxSeg + 1)

\* C4: segment counts below 1 are rejected before anything is generated: for a
\* parameter set with segmentsU < 1 or segmentsV < 1 no array is produced, nothing
\* is uploaded and nothing is drawn.
C4_SegmentCountsRejected ==
  (Triangulated /\ model # NoModel
     /\ (model.segmentsCountU < 1 \/ model.segmentsCountV < 1))
  => /\ locals = NoLocals
     /\ gpu = EmptyBuffers
     /\ frameLog = << >>

Less(a, b) == FSub(a, b)[1] < 0
\* the tolerance of a unit-length test at the precision of a Float32Array element
Tolerance == RoundTo(1, 3 - FloatBits, DoubleBits)
NearOne(x) ==
  /\ IsFinite(x)
  /\ Less(FSub(x, One), Tolerance)
  /\ Less(FSub(One, x), Tolerance)

\* C6: for segment counts >= 1 every normal returned by getFacetWeightedNormals
\* is a unit vector: each vertex's three components are numbers (no division by
\* an accumulated length of zero) and their length is 1 within tolerance.
C6_FacetNormalsUnit ==
  (page = "facet" /\ Generated /\ model.segmentsCountU >= 1 /\ model.segmentsCountV >= 1)
  => \A k \in 0..(GridPoints(model.segmentsCountU, model.segmentsCountV) - 1) :
       /\ \A c \in 0..2 : IsFinite(At(locals.normals, 3 * k + c))
       /\ NearOne(Length(Triple(locals.normals, 3 * k)))

\* createUVertices and createVVertices applied to a grid with unequal counts (the
\* constructor itself only builds grids with segmentsU = segmentsV = linesCount)
Rectangular(su, sv) ==
  [WireModel("CorrugatedSphere", One, Half, 2, su) EXCEPT !.segmentsV = sv]

WirePolylines(m, uVertices, vVertices) ==
  /\ Len(uVertices) = 3 * GridPoints(m.segmentsU, m.segmentsV)
  /\ Len(vVertices) = 3 * GridPoints(m.segmentsU, m.segmentsV)
  /\ \A i \in 0..m.segmentsU, j \in 0..m.segmentsV :
       /\ Triple(uVertices, 3 * (i * (m.segmentsV + 1) + j)) = UVertexAt(m, i, j)
       /\ Triple(vVertices, 3 * (j * (m.segmentsU + 1) + i)) = VVertexAt(m, j, i)

RectangularPolylines ==
  \A su \in 1..MaxSeg, sv \in 1..MaxSeg :
    WirePolylines(Rectangular(su, sv), createUVertices(Rectangular(su, sv)),
                  createVVertices(Rectangular(su, sv)))

\* C7: in the wireframe build, for segment counts >= 1, createUVertices gives
\* segmentsU + 1 polylines of segmentsV + 1 points (curve i at points
\* i * (segmentsV + 1) ..) and createVVertices gives segmentsV + 1 polylines of
\* segmentsU + 1 points (curve j at points j * (segmentsU + 1) ..), flat and
\* contiguous; after bufferData uVertexCount = vVertexCount =
\* (segmentsU + 1) * (segmentsV + 1), 2 * (segmentsU + 1) * (segmentsV + 1) in all.
C7_WirePolylineCounts ==
  /\ RectangularPolylines
  /\ (page = "wireframe" /\ Generated /\ model.segmentsU >= 1 /\ model.segmentsV >= 1)
     => /\ WirePolylines(model, locals.uVertices, locals.vVertices)
        /\ model.uVertexCount = GridPoints(model.segmentsU, model.segmentsV)
        /\ model.vVertexCount = GridPoints(model.segmentsU, model.segmentsV)
        /\ model.uVertexCount + model.vVertexCount
             = 2 * (model.segmentsU + 1) * (model.segmentsV + 1)
        /\ Len(gpu.uVertexBuffer) = 3 * model.uVertexCount
        /\ Len(gpu.vVertexBuffer) = 3 * model.vVertexCount

C7_Witness ==
  /\ page = "wireframe" /\ pc = "buffered" /\ Generated
  /\ model.segmentsU = 3 /\ model.segmentsV = 3
  /\ model.uVertexCount = 16 /\ model.vVertexCount = 16
  /\ Len(locals.uVertices) + Len(locals.vVertices) = 3 * 32

\* the draw calls of the last frame that read the given buffer and cover point p
Covering(buffer, p) ==
  {k \in 1..Len(drawCalls) :
     /\ drawCalls[k].buffer = buffer
     /\ drawCalls[k].first <= p
     /\ p < drawCalls[k].first + drawCalls[k].count}

StripDrawn(buffer, first, count) ==
  \E k \in 1..Len(drawCalls) :
    /\ drawCalls[k].mode = "LINE_STRIP"
    /\ drawCalls[k].buffer = buffer
    /\ drawCalls[k].first = first
    /\ drawCalls[k].count = count

\* C8: in the wireframe build draw() issues one line strip for every U-curve
\* i in 0..segmentsU (first i * (segmentsV + 1), count segmentsV + 1) and one for
\* every V-curve j in 0..segmentsV (first j * (segmentsU + 1), count segmentsU + 1);
\* every point of both buffers is covered by exactly one call and no call reads
\* past the end of its buffer.
C8_EveryCurveDrawn ==
  (page = "wireframe" /\ pc = "idle" /\ Generated
     /\ model.segmentsU >= 1 /\ model.segmentsV >= 1)
  => /\ \A i \in 0..model.segmentsU :
          StripDrawn("uVertexBuffer", i * (model.segmentsV + 1), model.segmentsV + 1)
     /\ \A j \in 0..model.segmentsV :
          StripDrawn("vVertexBuffer", j * (model.segmentsU + 1), model.segmentsU + 1)
     /\ \A p \in 0..(model.uVertexCount - 1) :
          Cardinality(Covering("uVertexBuffer", p)) = 1
     /\ \A p \in 0..(model.vVertexCount - 1) :
          Cardinality(Covering("vVertexBuffer", p)) = 1
     /\ \A k \in 1..Len(drawCalls) :
          drawCalls[k].first + drawCalls[k].count
            <= (IF drawCalls[k].buffer = "uVertexBuffer"
                THEN model.uVertexCount ELSE model.vVertexCount)

\* how often a call occurs in the current frame
Count(e) == Cardinality({k \in 1..Len(frameLog) : frameLog[k] = e})

\* C9: in every frame the mesh is generated once, uploaded once and drawn once,
\* in that order: no generator and no upload occurs twice in a frame, and a
\* finished frame consists of one bufferData's calls followed by the draw.
C9_OncePerFrame ==
  /\ \A k \in 1..Len(frameLog) : Count(frameLog[k]) = 1
  /\ (pc = "idle" /\ model # NoModel)
     => frameLog = (CASE page = "facet" -> FacetCalls
                      [] page = "analytic" -> AnalyticCalls
                      [] OTHER -> WireCalls) \o <<"draw">>

\* the row of the grid a vertex position belongs to
Row(point) == point \div (model.segmentsCountV + 1)
\* the position of the vertex of grid point (segmentsU, j)
SeamTwin(j) == model.segmentsCountU * (model.segmentsCountV + 1) + j

\* the seam is stored twice: (0, j) at position j and (segmentsU, j) at position
\* segmentsU * (segmentsV + 1) + j, two different positions of the vertex array
SeamStoredTwice ==
  \A j \in 0..model.segmentsCountV :
    /\ j # SeamTwin(j)
    /\ 3 * SeamTwin(j) + 3 <= Len(locals.vertices)

\* no cell starts in row segmentsU and wraps to row 0: every triangle joins a
\* row i < segmentsU to the row i + 1 stored after it
SeamNotClosed ==
  \A t \in 0..((Len(locals.indices) \div 3) - 1) :
    LET rows == {Row(locals.indices[3 * t + c]) : c \in 1..3}
    IN \E i \in 0..(model.segmentsCountU - 1) : rows = {i, i + 1}

\* C10, as claimed: for every j the vertices of grid points (0, j) and
\* (segmentsU, j) have equal positions; they are stored as distinct vertices at
\* positions j and segmentsU * (segmentsV + 1) + j, and no triangle joins row
\* segmentsU back to row 0.
C10_SeamPositionsEqual ==
  (Triangulated /\ Generated /\ model.segmentsCountU >= 1 /\ model.segmentsCountV >= 1)
  => /\ \A j \in 0..model.segmentsCountV :
          Triple(locals.vertices, 3 * j) = Triple(locals.vertices, 3 * SeamTwin(j))
     /\ SeamStoredTwice
     /\ SeamNotClosed

\* |x|
Magnitude(x) == <<Abs(x[1]), x[2]>>
\* a <= b for finite numbers
AtMost(a, b) == FSub(a, b)[1] <= 0
\* 2^-50, a few units in the last place of a Number near 1
Epsilon == RoundTo(1, -50, DoubleBits)

\* C10, amended: for every j the vertices of grid points (0, j) and
\* (segmentsU, j) have the same x and z, and y differs by at most Epsilon * |x|
\* but is not the same number unless x = 0 (sin(2 * Math.PI) is not 0); they are
\* stored at the distinct positions j and segmentsU * (segmentsV + 1) + j, and
\* every triangle joins a row i < segmentsU to row i + 1.
C10_SeamWithinEpsilon ==
  (Triangulated /\ Generated /\ model.segmentsCountU >= 1 /\ model.segmentsCountV >= 1)
  => /\ \A j \in 0..model.segmentsCountV :
          LET first == Triple(locals.vertices, 3 * j)
              last == Triple(locals.vertices, 3 * SeamTwin(j))
          IN /\ last[1] = first[1]
             /\ last[3] = first[3]
             /\ IsFinite(first[2]) /\ IsFinite(last[2])
             /\ AtMost(Magnitude(FSub(last[2], first[2])),
                       FMul(Epsilon, Magnitude(first[1])))
             /\ ~IsZero(first[1]) => last[2] # first[2]
     /\ SeamStoredTwice
     /\ SeamNotClosed

C10_Witness ==
  /\ Triangulated /\ Generated
  /\ model.segmentsCountU = MaxSeg /\ model.segmentsCountV = 2
  /\ model.radius = One /\ model.a = Half /\ model.n = 2
  /\ \E j \in 0..model.segmentsCountV :
       /\ Triple(locals.vertices, 3 * j)[1] = Triple(locals.vertices, 3 * SeamTwin(j))[1]
       /\ Triple(locals.vertices, 3 * j)[2] # Triple(locals.vertices, 3 * SeamTwin(j))[2]

\* the triangles of the index list (0-based) that have vertex position p as a corner
TrianglesAt(p) ==
  {t \in 0..((Len(locals.indices) \div 3) - 1) :
     \E c \in 1..3 : locals.indices[3 * t + c] = p}

\* C11: for segment counts >= 1 every vertex position
\* 0 .. (segmentsU + 1) * (segmentsV + 1) - 1 occurs in the index list of
\* getIndices, as a corner of a whole triangle, so the first loop of
\* getFacetWeightedNormals adds at least one contribution to every vertex's
\* accumulator before the second loop normalizes it.
C11_EveryVertexIndexed ==
  (Triangulated /\ Generated /\ model.segmentsCountU >= 1 /\ model.segmentsCountV >= 1)
  => /\ Len(locals.indices) % 3 = 0
     /\ \A p \in 0..(GridPoints(model.segmentsCountU, model.segmentsCountV) - 1) :
          /\ \E k \in 1..Len(locals.indices) : locals.indices[k] = p
          /\ TrianglesAt(p) # {}
          /\ 3 * p + 3 <= Len(locals.normals)

C11_Witness ==
  /\ page = "facet" /\ Generated
  /\ model.segmentsCountU = MaxSeg /\ model.segmentsCountV = MaxSeg
  /\ Cardinality(TrianglesAt(GridPoints(MaxSeg, MaxSeg) - 1)) = 1
  /\ Cardinality(TrianglesAt(MaxSeg + 2)) = 6

\* the model object of the triangulated builds with the parameters of a
\* wireframe model object
Triangulation(m) == Model(m.radius, m.corrugation, m.n, m.segmentsU, m.segmentsV)

\* the U array and the V array hold the same grid, transposed, each point being
\* the position of (phi_i, v_j), and the U array is the vertex array of getVertices
Transposed(m, uVertices, vVertices) ==
  /\ \A i \in 0..m.segmentsU, j \in 0..m.segmentsV :
       /\ Triple(uVertices, 3 * (i * (m.segmentsV + 1) + j))
            = Triple(vVertices, 3 * (j * (m.segmentsU + 1) + i))
       /\ Triple(uVertices, 3 * (i * (m.segmentsV + 1) + j))
            = VertexAt(Triangulation(m), i, j)
       /\ \A c \in 1..3 : ~IsNaN(Triple(uVertices, 3 * (i * (m.segmentsV + 1) + j))[c])
  /\ Len(uVertices) = Len(vVertices)
  /\ uVertices = getVertices(Triangulation(m))

RectangularTransposed ==
  \A su \in 1..MaxSeg, sv \in 1..MaxSeg :
    Transposed(Rectangular(su, sv), createUVertices(Rectangular(su, sv)),
               createVVertices(Rectangular(su, sv)))

\* C12: the two wireframe arrays hold the same grid of points in transposed
\* order: for every i in 0..segmentsU and j in 0..segmentsV the point at
\* position i * (segmentsV + 1) + j of the U array equals the point at position
\* j * (segmentsU + 1) + i of the V array, both being the position of
\* (phi_i, v_j); the U array equals the vertex array of getVertices for the same
\* parameters; the same holds for the two uploaded buffers.
C12_WireBuffersTransposed ==
  /\ RectangularTransposed
  /\ (page = "wireframe" /\ Generated /\ model.segmentsU >= 1 /\ model.segmentsV >= 1)
     => /\ Transposed(model, locals.uVertices, locals.vVertices)
        /\ \A i \in 0..model.segmentsU, j \in 0..model.segmentsV :
             Triple(gpu.uVertexBuffer, 3 * (i * (model.segmentsV + 1) + j))
               = Triple(gpu.vVertexBuffer, 3 * (j * (model.segmentsU + 1) + i))
        /\ gpu.uVertexBuffer = Float32Array(getVertices(Triangulation(model)))

C12_Witness ==
  /\ page = "wireframe" /\ pc = "buffered" /\ Generated
  /\ model.segmentsU = MaxSeg /\ model.radius = One
  /\ model.corrugation = Half /\ model.n = 2
  /\ locals.uVertices # locals.vVertices
  /\ Triple(locals.uVertices, 3 * (1 * (model.segmentsV + 1) + 2))
       = Triple(locals.vVertices, 3 * (2 * (model.segmentsU + 1) + 1))
  /\ Triple(locals.uVertices, 3 * (1 * (model.segmentsV + 1) + 2))
       # Triple(locals.vVertices, 3 * (1 * (model.segmentsU + 1) + 2))

\* the index list of the current model has been uploaded in this frame
IndicesUploaded ==
  \E k \in 1..Len(frameLog) : frameLog[k] = "bufferData(indexBuffer)"

\* C13: for segment counts >= 1 the indices uploaded to the element buffer (as
\* 16-bit unsigned integers, drawn as UNSIGNED_SHORT) are equal to the indices
\* getIndices generated, element by element: no index is changed by reduction
\* modulo 2^16, whatever the size of the grid.
C13_UploadedIndicesEqual ==
  (Triangulated /\ Generated /\ IndicesUploaded
     /\ model.segmentsCountU >= 1 /\ model.segmentsCountV >= 1)
  => /\ Len(gpu.indexBuffer) = Len(locals.indices)
     /\ \A k \in 1..Len(locals.indices) : gpu.indexBuffer[k] = locals.indices[k]

=============================================================================
